---- MODULE Spec2Model ----
(***************************************************************************)
(* Model of the crypto dashboard: the Dash variant (src/app.py) and the    *)
(* Streamlit variant (src/dashboard.py).  Both read one table,             *)
(* cryptoprices, through a pair catalog lookup and a bounded fetch that    *)
(* first selects ma75 unquoted and then retries with "MA75" AS ma75.       *)
(***************************************************************************)
EXTENDS Integers, Sequences, FiniteSets, TLC

VARIABLES
    variant,      \* "app" (src/app.py) or "dashboard" (src/dashboard.py)
    schema,       \* how the table stores ma75: "lower", "quoted" or "absent"
    table,        \* the rows of cryptoprices (a set of physical rows)
    now,          \* wall clock, in seconds
    pc,           \* position of the running program
    catalog,      \* PAIRS (app.py) / pairs_df["pair"] (dashboard.py)
    selected,     \* default_pair / dropdown value (app.py), selectbox value (dashboard.py)
    request,      \* arguments of the bounded fetch in progress
    queries,      \* the queries the current bounded fetch has issued, with their outcome
    outcome,      \* how the bounded fetch ended: a value or a raised exception
    openConns,    \* database connections currently open
    cache,        \* st.cache_data store of load_prices (dashboard.py)
    fromCache,    \* whether the current load_prices call was answered by the cache
    view          \* what the presentation layer shows

vars == <<variant, schema, table, now, pc, catalog, selected, request,
          queries, outcome, openConns, cache, fromCache, view>>

----------------------------------------------------------------------------
(* Bounds of the model *)

\* largest number of rows in the table of the protocol specification
MaxRows == 2
\* the clock advances in steps of TickSeconds up to MaxNow
TickSeconds == 30
MaxNow == 60
\* largest table of the tail-view specification
MaxTailRows == 202

(* Program constants *)

\* make_interval(days => %s) / INTERVAL '%s days'
SecondsPerDay == 86400
\* min(200, len(time)) / df.tail(200)
TailLimit == 200
\* @st.cache_data(ttl=60)
CacheTtl == 60
\* Python None / SQL NULL / pandas NaN
Null == -1
\* days is None: no time clause
NoDays == 0

Variants == {"app", "dashboard"}
Schemas == {"lower", "quoted", "absent"}
PairNames == {"BTCUSDT", "ETHUSDT"}
\* ages, in days, of the bars a table may hold
Ages == {30, 3, 1}
\* slider values the user picks
AppDays == {7, 90}
DashDays == {7}
\* columns whose values may be null in every row
VariedCols == {"ma75", "bb_upper"}
\* age of the bar whose sma10 is null (a partly null column)
PartialNullAge == 30

----------------------------------------------------------------------------
(* The table and the SQL the two programs send *)

Range(s) == {s[i] : i \in 1..Len(s)}

Min(a, b) == IF a < b THEN a ELSE b

Max(a, b) == IF a > b THEN a ELSE b

\* the fixed column list of the SELECT, before {ma75_expr}
BaseColumns ==
    <<"time", "pair", "open", "high", "low", "close", "volume",
      "avg_volume_20", "rsi14", "macd", "macd_signal",
      "bb_upper", "bb_lower", "bb_basis",
      "ma50", "ma100", "ma200", "sma10", "sma50",
      "vwma10", "vwma20", "vwma50">>

\* the two texts substituted for {ma75_expr}
UnquotedExpr == "ma75"

QuotedExpr == "\"MA75\" AS ma75"

\* name under which the table stores ma75 (PostgreSQL folds an unquoted
\* identifier to lower case and keeps a quoted one as written)
PhysicalMa75(sch) ==
    CASE sch = "lower" -> {"ma75"}
      [] sch = "quoted" -> {"MA75"}
      [] OTHER -> {}

PhysicalColumns(sch) == Range(BaseColumns) \cup PhysicalMa75(sch)

\* a select-list item: the physical column it reads and the name of the
\* result column (the alias, or the column's own name)
ColumnExpr(expr) ==
    CASE expr = "ma75" -> [src |-> "ma75", name |-> "ma75"]
      [] expr = "\"MA75\" AS ma75" -> [src |-> "MA75", name |-> "ma75"]
      [] expr = "\"MA75\"" -> [src |-> "MA75", name |-> "MA75"]
      [] OTHER -> [src |-> expr, name |-> expr]

SelectList(q) ==
    [i \in 1..(Len(q.columns) + 1) |->
        IF i <= Len(q.columns)
        THEN [src |-> q.columns[i], name |-> q.columns[i]]
        ELSE ColumnExpr(q.ma75_expr)]

\* value of one cell of a generated bar
CellValue(col, key, nullCols) ==
    CASE col = "time" -> 0 - key.age * SecondsPerDay
      [] col = "pair" -> key.pair
      [] col \in {"ma75", "MA75"} ->
            IF "ma75" \in nullCols THEN Null ELSE key.age + 75
      [] col \in nullCols -> Null
      [] col = "sma10" /\ key.age = PartialNullAge -> Null
      [] OTHER -> key.age + 1

MkRow(sch, key, nullCols) ==
    [c \in PhysicalColumns(sch) |-> CellValue(c, key, nullCols)]

MkTable(sch, keys, nullCols) == {MkRow(sch, k, nullCols) : k \in keys}

RowKeys == [pair : PairNames, age : Ages]

RECURSIVE OrderByTime(_)
\* ORDER BY time ASC
OrderByTime(rows) ==
    IF rows = {} THEN <<>>
    ELSE LET first == CHOOSE r \in rows : \A o \in rows : r["time"] <= o["time"]
         IN <<first>> \o OrderByTime(rows \ {first})

\* WHERE pair = %s [AND time >= NOW() - make_interval(days => %s)]
Matches(q, row, clock) ==
    /\ row["pair"] = q.pair
    /\ \/ q.days = NoDays
       \/ row["time"] >= clock - q.days * SecondsPerDay

\* what the server answers to a query
Execute(q, sch, rows, clock) ==
    LET items == SelectList(q)
    IN IF \E i \in 1..Len(items) : items[i].src \notin PhysicalColumns(sch)
       THEN [status |-> "error", kind |-> "undefined_column",
             cols |-> <<>>, rows |-> <<>>]
       ELSE LET hit == OrderByTime({r \in rows : Matches(q, r, clock)})
            IN [status |-> "ok", kind |-> "none",
                cols |-> [i \in 1..Len(items) |-> items[i].name],
                rows |-> [k \in 1..Len(hit) |->
                            [i \in 1..Len(items) |-> hit[k][items[i].src]]]]

\* failures of the database that do not depend on the query: the
\* connection is refused, or the statement fails once connected
Faults == {"none", "connect", "execute"}

\* SELECT DISTINCT pair FROM cryptoprices ORDER BY pair
SortedPairNames == <<"BTCUSDT", "ETHUSDT">>

IsListed(rows, p) == \E r \in rows : r["pair"] = p

DistinctPairs(rows) ==
    LET RECURSIVE Keep(_)
        Keep(i) ==
            IF i > Len(SortedPairNames) THEN <<>>
            ELSE (IF IsListed(rows, SortedPairNames[i])
                  THEN <<SortedPairNames[i]>> ELSE <<>>) \o Keep(i + 1)
    IN Keep(1)

\* a connection closed only when the block is left without an exception
ReleasedOnSuccessOnly(opened, status) == IF status = "ok" THEN opened ELSE 0

\* the with-block around psycopg.connect closes the connection when the
\* block is left, by return or by exception
Released(opened, status) == opened

\* with psycopg.connect(...) as conn: run the statement, fetch the rows
Connection(fault, answer) ==
    LET opened == IF fault = "connect" THEN 0 ELSE 1
        res == IF fault = "none" THEN answer
               ELSE [status |-> "error", kind |-> fault,
                     cols |-> <<>>, rows |-> <<>>]
    IN [status |-> res.status, kind |-> res.kind, cols |-> res.cols,
        rows |-> res.rows, opened |-> opened,
        released |-> Released(opened, res.status)]

\* what the server answers to the pair catalog statement
PairsAnswer(rows) ==
    LET names == DistinctPairs(rows)
    IN [status |-> "ok", kind |-> "none", cols |-> <<"pair">>,
        rows |-> [i \in 1..Len(names) |-> <<names[i]>>]]

\* fetch_pairs(): the list of pairs, or the exception
FetchPairs(fault, rows) == Connection(fault, PairsAnswer(rows))

\* the statement of the bounded fetch: base.format(ma75_expr, time_clause)
\* with its parameters
Query(expr, req) ==
    [columns |-> BaseColumns, ma75_expr |-> expr, pair |-> req.pair,
     days |-> req.days, order |-> "time ASC"]

ColumnIndex(cols, c) == CHOOSE i \in 1..Len(cols) : cols[i] = c

\* data = {c: [] for c in cols}; data[c].append(v)
DictOfLists(cols, rows) ==
    [c \in Range(cols) |->
        [k \in 1..Len(rows) |-> rows[k][ColumnIndex(cols, c)]]]

\* fetch_data.run_query(ma75_expr)
RunQuery(expr, req, fault, sch, rows, clock) ==
    LET a == Connection(fault, Execute(Query(expr, req), sch, rows, clock))
    IN [status |-> a.status, kind |-> a.kind, cols |-> a.cols,
        opened |-> a.opened, released |-> a.released,
        data |-> IF a.status = "ok" THEN DictOfLists(a.cols, a.rows) ELSE <<>>]

\* a pandas DataFrame: its columns and its rows
EmptyFrame == [columns |-> <<>>, rows |-> <<>>]

FrameIsEmpty(df) == Len(df.rows) = 0 \/ Len(df.columns) = 0

\* run_sql(sql, params): the frame read, or an empty frame after showing
\* the exception
RunSql(answer, fault) ==
    LET a == Connection(fault, answer)
    IN [status |-> a.status, kind |-> a.kind, cols |-> a.cols,
        opened |-> a.opened, released |-> a.released,
        shown |-> IF a.status = "ok" THEN 0 ELSE 1,
        df |-> IF a.status = "ok"
               THEN [columns |-> a.cols, rows |-> a.rows]
               ELSE EmptyFrame]

\* a retry that reads the quoted column without the alias
RetryExprNoAlias == "\"MA75\""

\* the expression tried first and the one of the retry
FirstExpr == UnquotedExpr

RetryExpr == QuotedExpr

\* one entry of the log of queries a bounded fetch issued
Issued(expr, req, a) ==
    [query |-> Query(expr, req), status |-> a.status, kind |-> a.kind,
     cols |-> a.cols]

----------------------------------------------------------------------------
(* Presentation helpers *)

\* Python None as a pair: no selection
NoPair == "None"

NoRequest == [pair |-> NoPair, days |-> NoDays]

NoOutcome == [kind |-> "none", data |-> <<>>, error |-> "none"]

\* the page before anything was rendered
BlankView ==
    [kpis |-> [kind |-> "blank", values |-> <<>>],
     price_chart |-> <<>>, ma_chart |-> <<>>, macd_chart |-> <<>>,
     tail |-> <<>>, footnote |-> 0, exceptions |-> 0]

\* a default that falls back to BTCUSDT when no pair is known
DefaultPairAlways(pairs) == IF pairs # <<>> THEN pairs[1] ELSE "BTCUSDT"

\* "BTCUSDT" if "BTCUSDT" in PAIRS else (PAIRS[0] if PAIRS else None)
DefaultPair(pairs) ==
    IF "BTCUSDT" \in Range(pairs) THEN "BTCUSDT"
    ELSE IF pairs # <<>> THEN pairs[1] ELSE NoPair

\* fmt(x, d): the number formatted, or the placeholder for a missing value
Fmt(x) == IF x = Null THEN "-" ELSE <<"f", x>>

\* datetime.isoformat(sep=" ") of a time that is set
IsoFormat(v) == IF v = Null THEN v ELSE <<"iso", v>>

\* str.upper() of the chart's column names
Upper(name) ==
    CASE name = "sma10" -> "SMA10" [] name = "sma50" -> "SMA50"
      [] name = "ma50" -> "MA50" [] name = "ma75" -> "MA75"
      [] name = "ma100" -> "MA100" [] name = "ma200" -> "MA200"
      [] name = "bb_upper" -> "BB_UPPER" [] name = "bb_lower" -> "BB_LOWER"
      [] name = "bb_basis" -> "BB_BASIS" [] OTHER -> name

\* data.get(name, []) of the dict of lists
Get(data, name) == IF name \in DOMAIN data THEN data[name] ELSE <<>>

Last(s) == s[Len(s)]

\* columns the moving-averages chart of app.py may draw
AppMaCandidates ==
    <<"sma10", "sma50", "ma50", "ma75", "ma100", "ma200",
      "bb_upper", "bb_lower", "bb_basis">>

\* maybe_add(name): the series is drawn when it has a value that is not None
MaybeAdd(data, name) ==
    LET series == Get(data, name)
    IN Len(series) > 0 /\ \E i \in 1..Len(series) : series[i] # Null

\* the traces of fig_ma, in the order of the loop
AppMaChart(data) ==
    LET kept == SelectSeq(AppMaCandidates, LAMBDA c : MaybeAdd(data, c))
    IN [i \in 1..Len(kept) |-> [col |-> kept[i], name |-> Upper(kept[i])]]

\* columns of the table of app.py that the data holds
AppTableCols(data) ==
    SelectSeq(<<"time", "pair", "open", "high", "low", "close", "volume",
                "rsi14", "macd", "macd_signal">>,
              LAMBDA c : c \in DOMAIN data)

\* a table that starts at the first row
AppTailStartZero(n) == 0

\* tail_len = min(200, len(time)); start = len(time) - tail_len
AppTailStart(n) == n - Min(TailLimit, n)

\* rows of the DataTable: range(start, len(time)), time as text
AppTail(data) ==
    LET time == data["time"]
        cols == AppTableCols(data)
        start == AppTailStart(Len(time))
    IN [k \in 1..(Len(time) - start) |->
          [c \in Range(cols) |->
              IF c = "time" THEN IsoFormat(data[c][start + k])
              ELSE data[c][start + k]]]

\* the four KPI cards of app.py
AppKpis(data) ==
    LET card(name) == IF Len(Get(data, name)) > 0
                      THEN Fmt(Last(Get(data, name))) ELSE "-"
    IN <<card("close"), card("rsi14"), card("macd"), card("volume")>>

\* update(): everything after the fetch returned rows
AppCharts(data) ==
    [kpis |-> [kind |-> "kpis", values |-> AppKpis(data)],
     price_chart |-> <<"Close">>,
     ma_chart |-> AppMaChart(data),
     macd_chart |-> IF Len(Get(data, "macd")) > 0 /\ Len(Get(data, "macd_signal")) > 0
                    THEN <<"MACD", "Signal">> ELSE <<>>,
     tail |-> AppTail(data),
     footnote |-> Len(data["time"]),
     exceptions |-> 0]

\* a callback result that replaces the KPI area by a message and leaves
\* the charts and the table as they are (no_update)
Message(old, kind) ==
    [old EXCEPT !.kpis = [kind |-> kind, values |-> <<>>], !.footnote = 0]

\* value of column c in row k of a frame
Cell(df, c, k) == df.rows[k][ColumnIndex(df.columns, c)]

\* columns the moving-averages chart of dashboard.py may draw
DashMaCandidates == <<"sma10", "sma50", "ma50", "ma75", "ma100", "ma200">>

\* ma_cols = [c for c in [...] if c in df.columns]
DashMaCols(df) ==
    SelectSeq(DashMaCandidates, LAMBDA c : c \in Range(df.columns))

\* df.tail(200)
DashTail(df) ==
    SubSeq(df.rows, Max(1, Len(df.rows) - TailLimit + 1), Len(df.rows))

\* the four metrics of dashboard.py, read from df.iloc[-1]
DashKpis(df) ==
    LET card(name) == IF name \in Range(df.columns)
                      THEN Fmt(Cell(df, name, Len(df.rows))) ELSE "-"
    IN <<card("close"), card("rsi14"), card("macd"), card("volume")>>

\* the script after load_prices returned a frame with rows
DashCharts(old, df) ==
    LET ma == DashMaCols(df)
    IN [kpis |-> [kind |-> "kpis", values |-> DashKpis(df)],
        price_chart |-> <<"close">>,
        ma_chart |-> [i \in 1..Len(ma) |-> [col |-> ma[i], name |-> ma[i]]],
        macd_chart |-> IF {"macd", "macd_signal"} \subseteq Range(df.columns)
                       THEN <<"macd", "macd_signal">> ELSE <<>>,
        tail |-> DashTail(df),
        footnote |-> Len(df.rows),
        exceptions |-> old.exceptions]

\* st.cache_data keeps one entry per argument tuple; attempts_failed
\* records, for the properties only, that the entry was computed while
\* every database attempt of the call failed
CacheKeys == PairNames \X DashDays

NoEntry ==
    [present |-> FALSE, value |-> EmptyFrame, stored_at |-> 0,
     attempts_failed |-> FALSE]

\* an entry answers a call until ttl seconds after it was stored
Fresh(entry, clock) == entry.present /\ clock < entry.stored_at + CacheTtl

Store(c, req, df, clock, failed) ==
    [c EXCEPT ![<<req.pair, req.days>>] =
        [present |-> TRUE, value |-> df, stored_at |-> clock,
         attempts_failed |-> failed]]

\* a fetch that always runs the second query
AlwaysRetry(status, kind, cols) == TRUE

\* a fetch that retries on the column-resolution failure alone
RetryOnColumnErrorOnly(status, kind, cols) ==
    kind = "undefined_column" \/ (status = "ok" /\ "ma75" \notin Range(cols))

\* the except clause of the bounded fetch is entered when the first
\* attempt raised or its result holds no ma75
NeedsRetry(status, kind, cols) == status # "ok" \/ "ma75" \notin Range(cols)

----------------------------------------------------------------------------
(* The protocol specification *)

NullPatterns == {{}, VariedCols}

Init ==
    /\ variant \in Variants
    /\ schema \in Schemas
    /\ \E keys \in SUBSET RowKeys, nullCols \in NullPatterns :
          /\ Cardinality(keys) <= MaxRows
          /\ table = MkTable(schema, keys, nullCols)
    /\ now = 0
    /\ pc = IF variant = "app" THEN "start" ELSE "idle"
    /\ catalog = <<>>
    /\ selected = NoPair
    /\ request = NoRequest
    /\ queries = <<>>
    /\ outcome = NoOutcome
    /\ openConns = 0
    /\ cache = [k \in CacheKeys |-> NoEntry]
    /\ fromCache = FALSE
    /\ view = BlankView

\* app.py at import: PAIRS = fetch_pairs(), [] on any exception; default_pair
AppStartup ==
    /\ variant = "app" /\ pc = "start"
    /\ \E fault \in Faults :
          LET a == FetchPairs(fault, table)
              pairs == IF a.status = "ok"
                       THEN [i \in 1..Len(a.rows) |-> a.rows[i][1]] ELSE <<>>
          IN /\ catalog' = pairs
             /\ selected' = DefaultPair(pairs)
             /\ openConns' = openConns + a.opened - a.released
    /\ pc' = "idle"
    /\ UNCHANGED <<variant, schema, table, now, request, queries, outcome,
                   cache, fromCache, view>>

\* update(pair, days, all_data_values) up to the call of fetch_data
AppUpdate ==
    /\ variant = "app" /\ pc = "idle"
    /\ \E pair \in {selected} \cup Range(catalog), days \in AppDays,
          all \in BOOLEAN :
          IF pair = NoPair
          THEN /\ view' = Message(view, "no_pairs")
               /\ UNCHANGED <<pc, selected, request, queries, outcome>>
          ELSE /\ selected' = pair
               /\ request' = [pair |-> pair,
                              days |-> IF all THEN NoDays ELSE days]
               /\ queries' = <<>>
               /\ outcome' = NoOutcome
               /\ pc' = "attempt1"
               /\ UNCHANGED view
    /\ UNCHANGED <<variant, schema, table, now, catalog, openConns, cache,
                   fromCache>>

\* fetch_data: run_query("ma75"), returned when the data holds ma75
FetchDataAttempt1 ==
    /\ variant = "app" /\ pc = "attempt1"
    /\ \E fault \in Faults :
          LET a == RunQuery(FirstExpr, request, fault, schema, table, now)
          IN /\ queries' = Append(queries, Issued(FirstExpr, request, a))
             /\ openConns' = openConns + a.opened - a.released
             /\ IF NeedsRetry(a.status, a.kind, a.cols)
                THEN /\ pc' = "attempt2"
                     /\ UNCHANGED outcome
                ELSE /\ pc' = "render"
                     /\ outcome' = [kind |-> "value", data |-> a.data,
                                    error |-> "none"]
    /\ UNCHANGED <<variant, schema, table, now, catalog, selected, request,
                   cache, fromCache, view>>

\* fetch_data: except Exception: return run_query('"MA75" AS ma75')
FetchDataAttempt2 ==
    /\ variant = "app" /\ pc = "attempt2"
    /\ \E fault \in Faults :
          LET a == RunQuery(RetryExpr, request, fault, schema, table, now)
          IN /\ queries' = Append(queries, Issued(RetryExpr, request, a))
             /\ openConns' = openConns + a.opened - a.released
             /\ outcome' = IF a.status = "ok"
                           THEN [kind |-> "value", data |-> a.data,
                                 error |-> "none"]
                           ELSE [kind |-> "raised", data |-> <<>>,
                                 error |-> a.kind]
    /\ pc' = "render"
    /\ UNCHANGED <<variant, schema, table, now, catalog, selected, request,
                   cache, fromCache, view>>

\* update() after fetch_data: the query error, the no-rows message, or the
\* KPIs, charts and table
AppRender ==
    /\ variant = "app" /\ pc = "render"
    /\ view' = IF outcome.kind = "raised"
               THEN Message(view, "query_error")
               ELSE IF Len(Get(outcome.data, "time")) = 0
               THEN Message(view, "no_rows")
               ELSE AppCharts(outcome.data)
    /\ pc' = "idle"
    /\ UNCHANGED <<variant, schema, table, now, catalog, selected, request,
                   queries, outcome, openConns, cache, fromCache>>

\* what the server answers to the two information_schema statements
DiagnosticsAnswer ==
    [status |-> "ok", kind |-> "none",
     cols |-> <<"table_schema", "table_name">>, rows |-> <<>>]

\* dashboard.py, a run of the script from its top (the names of the last
\* run are gone): the diagnostics expander
DashDiagnostics ==
    /\ variant = "dashboard" /\ pc = "idle"
    /\ \E f1 \in Faults, f2 \in Faults :
          LET tables == RunSql(DiagnosticsAnswer, f1)
              cols == RunSql(DiagnosticsAnswer, f2)
          IN /\ view' = [BlankView EXCEPT
                            !.exceptions = tables.shown + cols.shown]
             /\ openConns' = openConns + tables.opened - tables.released
                                       + cols.opened - cols.released
    /\ catalog' = <<>>
    /\ selected' = NoPair
    /\ request' = NoRequest
    /\ queries' = <<>>
    /\ outcome' = NoOutcome
    /\ fromCache' = FALSE
    /\ pc' = "pairs"
    /\ UNCHANGED <<variant, schema, table, now, cache>>

\* pairs_df = run_sql(...); warning and stop when empty; else the sidebar
DashPairsLookup ==
    /\ variant = "dashboard" /\ pc = "pairs"
    /\ \E fault \in Faults :
          LET a == RunSql(PairsAnswer(table), fault)
              pairs == [i \in 1..Len(a.df.rows) |-> a.df.rows[i][1]]
          IN /\ openConns' = openConns + a.opened - a.released
             /\ catalog' = pairs
             /\ IF FrameIsEmpty(a.df)
                THEN /\ view' = [view EXCEPT
                                   !.kpis = [kind |-> "no_pairs", values |-> <<>>],
                                   !.exceptions = @ + a.shown]
                     /\ pc' = "idle"
                     /\ UNCHANGED <<selected, request>>
                ELSE \E pair \in Range(pairs), days \in DashDays :
                        /\ view' = [view EXCEPT !.exceptions = @ + a.shown]
                        /\ selected' = pair
                        /\ request' = [pair |-> pair, days |-> days]
                        /\ pc' = "load"
    /\ UNCHANGED <<variant, schema, table, now, queries, outcome, cache,
                   fromCache>>

\* df = load_prices(pair, days): st.cache_data answers from a fresh entry,
\* else the function body runs
DashLoadPrices ==
    /\ variant = "dashboard" /\ pc = "load"
    /\ queries' = <<>>
    /\ LET entry == cache[<<request.pair, request.days>>]
       IN IF Fresh(entry, now)
          THEN /\ fromCache' = TRUE
               /\ outcome' = [kind |-> "value", data |-> entry.value,
                              error |-> "none"]
               /\ pc' = "render"
          ELSE /\ fromCache' = FALSE
               /\ outcome' = NoOutcome
               /\ pc' = "attempt1"
    /\ UNCHANGED <<variant, schema, table, now, catalog, selected, request,
                   openConns, cache, view>>

\* load_prices: run_sql with ma75, returned when the frame holds ma75
LoadPricesAttempt1 ==
    /\ variant = "dashboard" /\ pc = "attempt1"
    /\ \E fault \in Faults :
          LET a == RunSql(Execute(Query(FirstExpr, request), schema, table, now),
                          fault)
          IN /\ queries' = Append(queries, Issued(FirstExpr, request, a))
             /\ openConns' = openConns + a.opened - a.released
             /\ view' = [view EXCEPT !.exceptions = @ + a.shown]
             /\ IF NeedsRetry("ok", "none", a.df.columns)
                THEN /\ pc' = "attempt2"
                     /\ UNCHANGED <<outcome, cache>>
                ELSE /\ pc' = "render"
                     /\ outcome' = [kind |-> "value", data |-> a.df,
                                    error |-> "none"]
                     /\ cache' = Store(cache, request, a.df, now, FALSE)
    /\ UNCHANGED <<variant, schema, table, now, catalog, selected, request,
                   fromCache>>

\* load_prices: except Exception: the frame of run_sql with "MA75" AS ma75
LoadPricesAttempt2 ==
    /\ variant = "dashboard" /\ pc = "attempt2"
    /\ \E fault \in Faults :
          LET a == RunSql(Execute(Query(RetryExpr, request), schema, table, now),
                          fault)
          IN /\ queries' = Append(queries, Issued(RetryExpr, request, a))
             /\ openConns' = openConns + a.opened - a.released
             /\ view' = [view EXCEPT !.exceptions = @ + a.shown]
             /\ outcome' = [kind |-> "value", data |-> a.df, error |-> "none"]
             /\ cache' = Store(cache, request, a.df, now, a.status # "ok")
    /\ pc' = "render"
    /\ UNCHANGED <<variant, schema, table, now, catalog, selected, request,
                   fromCache>>

\* the script after load_prices: the no-rows message and stop, or the
\* metrics, charts and raw data
DashRender ==
    /\ variant = "dashboard" /\ pc = "render"
    /\ view' = IF FrameIsEmpty(outcome.data)
               THEN [view EXCEPT !.kpis = [kind |-> "no_rows", values |-> <<>>]]
               ELSE DashCharts(view, outcome.data)
    /\ pc' = "idle"
    /\ UNCHANGED <<variant, schema, table, now, catalog, selected, request,
                   queries, outcome, openConns, cache, fromCache>>

\* time passes between two interactions
Tick ==
    /\ pc = "idle"
    /\ now + TickSeconds <= MaxNow
    /\ now' = now + TickSeconds
    /\ UNCHANGED <<variant, schema, table, pc, catalog, selected, request,
                   queries, outcome, openConns, cache, fromCache, view>>

Next ==
    \/ AppStartup
    \/ AppUpdate
    \/ FetchDataAttempt1
    \/ FetchDataAttempt2
    \/ AppRender
    \/ DashDiagnostics
    \/ DashPairsLookup
    \/ DashLoadPrices
    \/ LoadPricesAttempt1
    \/ LoadPricesAttempt2
    \/ DashRender
    \/ Tick

Spec == Init /\ [][Next]_vars

----------------------------------------------------------------------------
(* The tail-view specification: a bounded fetch has just returned n bars   *)
(* of one pair, n up to MaxTailRows, and the presentation renders them.    *)

\* the widest window of the slider
TailWindow == 365

TailKeys(n) == {[pair |-> "BTCUSDT", age |-> i] : i \in 1..n}

TailRequest(v) ==
    [pair |-> "BTCUSDT", days |-> IF v = "app" THEN NoDays ELSE TailWindow]

InitTail ==
    /\ variant \in Variants
    /\ schema = "lower"
    /\ \E n \in 1..MaxTailRows : table = MkTable(schema, TailKeys(n), {})
    /\ now = 0
    /\ pc = "render"
    /\ catalog = <<"BTCUSDT">>
    /\ selected = "BTCUSDT"
    /\ request = TailRequest(variant)
    /\ fromCache = FALSE
    /\ openConns = 0
    /\ view = BlankView
    /\ IF variant = "app"
       THEN LET a == RunQuery(FirstExpr, request, "none", schema, table, now)
            IN /\ queries = <<Issued(FirstExpr, request, a)>>
               /\ outcome = [kind |-> "value", data |-> a.data, error |-> "none"]
               /\ cache = [k \in CacheKeys |-> NoEntry]
       ELSE LET a == RunSql(Execute(Query(FirstExpr, request), schema, table, now),
                            "none")
            IN /\ queries = <<Issued(FirstExpr, request, a)>>
               /\ outcome = [kind |-> "value", data |-> a.df, error |-> "none"]
               /\ cache = [k \in CacheKeys |-> NoEntry]

NextTail ==
    \/ AppRender
    \/ DashRender

SpecTail == InitTail /\ [][NextTail]_vars

----------------------------------------------------------------------------
(* Properties *)

\* rows of the value a bounded fetch returned, each as field -> value
ResultFields ==
    IF variant = "app" THEN DOMAIN outcome.data
    ELSE Range(outcome.data.columns)

ResultLen ==
    IF variant = "app" THEN Len(Get(outcome.data, "time"))
    ELSE Len(outcome.data.rows)

ResultCell(c, k) ==
    IF variant = "app" THEN outcome.data[c][k] ELSE Cell(outcome.data, c, k)

ResultRows == [k \in 1..ResultLen |-> [c \in ResultFields |-> ResultCell(c, k)]]

\* the same bars in a table that stores ma75 unquoted
Lowered(rows) ==
    {[c \in PhysicalColumns("lower") |->
        IF c = "ma75" THEN r["MA75"] ELSE r[c]] : r \in rows}

\* what the unquoted first attempt returns for those bars
FirstPathRows ==
    LET e == Execute(Query("ma75", request), "lower", Lowered(table), now)
    IN [k \in 1..Len(e.rows) |->
          [c \in Range(e.cols) |-> e.rows[k][ColumnIndex(e.cols, c)]]]

\* the current bounded fetch has ended after a database attempt
FetchEnded == pc \in {"render", "idle"} /\ queries # <<>>

\* C1: the first query of a bounded fetch reads ma75 unquoted; the second
\* reads "MA75" AS ma75 and is issued only after a first attempt that
\* raised or returned no ma75 field; a call issues at most two queries.
C1_FallbackOrder ==
    /\ Len(queries) <= 2
    /\ Len(queries) >= 1 => queries[1].query.ma75_expr = "ma75"
    /\ Len(queries) = 2 =>
          /\ queries[2].query.ma75_expr = "\"MA75\" AS ma75"
          /\ \/ queries[1].status = "error"
             \/ "ma75" \notin Range(queries[1].cols)

C1_Witness ==
    /\ pc = "render" /\ Len(queries) = 2
    /\ queries[1].kind = "undefined_column" /\ queries[2].status = "ok"

\* C2: when the first attempt and the quoted-alias retry both fail, the
\* bounded fetch ends by raising to its caller: it returns no value and
\* makes no third attempt.
C2_DoubleFailureRaises ==
    (/\ FetchEnded /\ Len(queries) >= 2
     /\ queries[1].status = "error" /\ queries[2].status = "error")
        => (outcome.kind = "raised" /\ Len(queries) = 2)

C4_ConnectionsReleased == openConns = 0

C4_Witness ==
    /\ pc = "render" /\ Len(queries) = 2 /\ openConns = 0
    /\ queries[1].kind = "undefined_column" /\ queries[2].kind = "execute"

\* C5: a bounded fetch that resolves ma75 through the quoted retry returns
\* the row sequence, under the field names, that the unquoted first
\* attempt returns for the same bars, pair and window; the retry's
\* statement differs from the first in the ma75 expression alone.
C5_FallbackTransparent ==
    (/\ pc = "render" /\ Len(queries) = 2 /\ schema = "quoted"
     /\ queries[2].status = "ok")
        => /\ outcome.kind = "value"
           /\ ResultFields = Range(BaseColumns) \cup {"ma75"}
           /\ ResultRows = FirstPathRows
           /\ queries[2].query =
                 [queries[1].query EXCEPT !.ma75_expr = "\"MA75\" AS ma75"]

C5_Witness ==
    /\ pc = "render" /\ Len(queries) = 2 /\ schema = "quoted"
    /\ queries[2].status = "ok" /\ ResultLen = 2
    /\ ResultCell("ma75", 1) # Null

\* C6: the cache of load_prices never answers a request with a result
\* computed while the database attempts of that (pair, window) failed, and
\* never with an entry older than 60 seconds.
C6_CacheNeverMasksFailure ==
    (variant = "dashboard" /\ pc = "render" /\ fromCache)
        => LET e == cache[<<request.pair, request.days>>]
           IN ~e.attempts_failed /\ now < e.stored_at + 60

\* C7: when the catalog lookup fails or yields no pairs, no default pair
\* is selected, no bounded fetch is attempted, and the page shows the
\* informational empty state.
C7_NoPairsNoFetch ==
    (catalog = <<>> /\ pc \notin {"start", "pairs"})
        => /\ selected = NoPair
           /\ pc = "idle"
           /\ queries = <<>>
           /\ view.kpis.kind \in {"blank", "no_pairs"}

C7_Witness ==
    /\ catalog = <<>> /\ table # {} /\ pc = "idle"
    /\ view.kpis.kind = "no_pairs"

\* C8: a fetch that succeeds with zero rows leads to the no-rows message
\* and never to the query error; a fetch that fails never leads to the
\* no-rows message.
C8_DistinctOutcomes ==
    (pc = "idle" /\ queries # <<>>)
        => /\ Last(queries).status = "error" => view.kpis.kind # "no_rows"
           /\ (Last(queries).status = "ok" /\ ResultLen = 0)
                 => view.kpis.kind = "no_rows"

\* C9: the tail view of a result of n rows holds exactly its last
\* min(200, n) rows in their order: never more than 200, all of them when
\* n < 200.
C9_TailView ==
    (pc = "idle" /\ view.kpis.kind = "kpis")
        => LET n == ResultLen
               m == IF n < 200 THEN n ELSE 200
           IN /\ Len(view.tail) = m
              /\ \A k \in 1..m :
                    IF variant = "app"
                    THEN /\ view.tail[k]["time"] =
                               <<"iso", outcome.data["time"][n - m + k]>>
                         /\ \A c \in (DOMAIN view.tail[k]) \ {"time"} :
                               view.tail[k][c] = outcome.data[c][n - m + k]
                    ELSE view.tail[k] = outcome.data.rows[n - m + k]

C9_Witness ==
    /\ pc = "idle" /\ view.kpis.kind = "kpis"
    /\ ResultLen = 201 /\ Len(view.tail) = 200

\* C10: a candidate column of the moving-averages chart is among the
\* chart's series if and only if one of its values in the fetched rows is
\* not null.
C10_SeriesInclusion ==
    (pc = "idle" /\ view.kpis.kind = "kpis" /\ outcome.kind = "value")
        => \A c \in Range(IF variant = "app" THEN AppMaCandidates
                          ELSE DashMaCandidates) :
              (\E i \in 1..Len(view.ma_chart) : view.ma_chart[i].col = c)
                 <=> (/\ c \in ResultFields
                      /\ \E k \in 1..ResultLen : ResultCell(c, k) # Null)

====
